---- MODULE Spec2Model ----
(***************************************************************************)
(* Model of the memoria MCP server (mcp_server_pg): the module-level       *)
(* asyncpg pool singleton of db/pool.py, the MemoryManager of              *)
(* memory/manager.py and the health probe of main.py, run by concurrent    *)
(* asyncio tasks.  Every await of the source is a point where another      *)
(* task may run; code between two awaits is one atomic step.               *)
(***************************************************************************)
EXTENDS Integers, Sequences, FiniteSets, TLC

\* ---------------------------------------------------------------- bounds
MaxPools == 2       \* pool objects asyncpg.create_pool may return in a run
MaxIds == 1         \* uuid4 tokens add_memory may draw in a run
MaxTime == 1        \* latest instant datetime.utcnow() may return in a run
MaxStoreIds == 2    \* uuid4 tokens add_memory may draw in a run of StoreSpec

\* ---------------------------------------------------------------- domains
Procs == {1, 2}                    \* slots for concurrent asyncio tasks
Managers == {"m1"}                 \* MemoryManager instances (main.py line 43 builds one)
None == 0                          \* Python None for pool references
UnusedId == 0                      \* an identifier uuid4 never produced
Forms == {"env", "dsn"}            \* init_db_pool(dsn=None) / init_db_pool(dsn=...)
PoolSizes == {1, 2}                \* max_size a deployment may configure
Texts == {<<>>, <<"buy", "milk">>}
StoreOps == {"add", "get", "search", "health"}
ManagerOps == {"add", "get", "search"}   \* the operations of MemoryManager

TopKs == {1}
\* A query_text as websearch_to_tsquery parses it: the words a document must
\* hold (unquoted words are joined by AND) and the words it must not hold
\* (a word written with a leading "-").
Query(all, none) == [all |-> all, none |-> none]
Queries == {Query(<<"milk">>, <<>>), Query(<<"xyz">>, <<>>)}

VARIABLES
    _pool,      \* db/pool.py module global: None or a pool object
    pools,      \* pool objects created so far: state, max_size, checked-out count
    mgrPool,    \* MemoryManager._pool of every manager
    memories,   \* rows of the memories relation
    nextId,     \* uuid4 tokens drawn so far
    now,        \* the latest reading of datetime.utcnow()
    proc,       \* per task: position in its coroutine and its locals
    last,       \* the call that finished in the step just taken, if any
    addLog,     \* history: [id, text, called] of every add_memory that returned
    max_size    \* the max_size this deployment passes to init_db_pool

vars == <<_pool, pools, mgrPool, memories, nextId, now, proc, last, addLog, max_size>>

PoolIds == 1..Len(pools)

\* A finished call: what was called (the argument is kept for a lookup), how
\* it ended and what it returned.
\* status "ok" is a normal return; any other status names the exception.
Result(op, arg, status, value) ==
    [op |-> op, arg |-> IF op = "get" THEN arg ELSE <<>>,
     status |-> status, value |-> value]

\* The step just taken finished no call.
NoResult == Result("none", <<>>, "none", <<>>)

Idle == [pc |-> "idle", op |-> "none", arg |-> <<>>, pool |-> None,
         id |-> 0, t |-> 0]

AllIdle == \A p \in Procs : proc[p].pc = "idle"

\* Tasks are anonymous: a new call runs in the first free slot.
FreeSlot(p) ==
    /\ proc[p].pc = "idle"
    /\ \A r \in Procs : r < p => proc[r].pc # "idle"

Init ==
    /\ _pool = None
    /\ pools = <<>>
    /\ mgrPool = [m \in Managers |-> None]
    /\ memories = {}
    /\ nextId = 0
    /\ now = 0
    /\ proc = [p \in Procs |-> Idle]
    /\ last = NoResult
    /\ addLog = {}
    /\ max_size \in PoolSizes

\* ------------------------------------------------------------ db/pool.py
\* Variant of AlreadyInitialized: the guard of line 45 is missing.
AlreadyInitialized_NoGuard == FALSE

\* init_db_pool line 45: the singleton is already set.
AlreadyInitialized == _pool # None

\* init_db_pool line 64: the success message reads db_name and db_host, which
\* are bound only in the else branch of line 50; with a dsn argument the read
\* raises UnboundLocalError inside the try block, after _pool was assigned.
PrintRaises(form) == form = "dsn"

InitsInFlight == Cardinality({p \in Procs : proc[p].pc = "init_await"})

\* init_db_pool up to the await of asyncpg.create_pool.
CallInit(p, form) ==
    /\ FreeSlot(p)
    /\ IF AlreadyInitialized
       THEN /\ last' = Result("init", <<form>>, "AlreadyInitialized", <<>>)
            /\ UNCHANGED proc
       ELSE /\ Len(pools) + InitsInFlight < MaxPools
            /\ proc' = [proc EXCEPT ![p] =
                  [Idle EXCEPT !.pc = "init_await", !.op = "init",
                               !.arg = <<form>>]]
            /\ last' = NoResult
    /\ UNCHANGED <<_pool, pools, mgrPool, memories, nextId, now, addLog, max_size>>

\* asyncpg.create_pool returned or raised; lines 60-70.  The value of the
\* result records the pool create_pool returned, if any.
InitResume(p) ==
    /\ proc[p].pc = "init_await"
    /\ \E reachable \in BOOLEAN :
        LET form == proc[p].arg[1]
            new == Len(pools) + 1
            raised == ~reachable \/ PrintRaises(form)
        IN  /\ IF reachable
               THEN /\ pools' = Append(pools, [state |-> "open",
                                               max_size |-> max_size,
                                               out |-> 0])
                    /\ _pool' = new
               ELSE UNCHANGED <<pools, _pool>>
            /\ last' = Result("init", proc[p].arg,
                              IF raised THEN "ConnectionRefused" ELSE "ok",
                              IF reachable THEN <<new>> ELSE <<>>)
    /\ proc' = [proc EXCEPT ![p] = Idle]
    /\ UNCHANGED <<mgrPool, memories, nextId, now, addLog, max_size>>

\* Variant of AfterClose: line 98 is missing, the singleton keeps its value.
AfterClose_Kept(cur) == cur

\* close_db_pool line 98: the value the singleton takes once close() returned.
AfterClose(cur) == None

\* Variant of CloseOfNone: the test of line 96 is missing and close() is
\* called on None.
CloseOfNone_Raises == Result("close", <<>>, "AttributeError", <<>>)

\* close_db_pool line 96: with the singleton None the body is skipped and the
\* call returns.
CloseOfNone == Result("close", <<>>, "ok", <<>>)

\* close_db_pool up to the await of Pool.close(), which marks the pool as
\* closing before it suspends (on a closed pool it returns at once).
CallClose(p) ==
    /\ FreeSlot(p)
    /\ IF _pool = None
       THEN /\ last' = CloseOfNone
            /\ UNCHANGED <<_pool, pools, proc>>
       ELSE IF pools[_pool].state = "closed"
       THEN /\ last' = Result("close", <<>>, "ok", <<_pool>>)
            /\ _pool' = AfterClose(_pool)
            /\ UNCHANGED <<pools, proc>>
       ELSE /\ pools' = [pools EXCEPT ![_pool].state = "closing"]
            /\ proc' = [proc EXCEPT ![p] =
                  [Idle EXCEPT !.pc = "close_await", !.op = "close", !.pool = _pool]]
            /\ last' = NoResult
            /\ UNCHANGED _pool
    /\ UNCHANGED <<mgrPool, memories, nextId, now, addLog, max_size>>

\* Pool.close() returns once every connection was released; lines 97-99.
\* The value of the result records the pool that was closed.
CloseResume(p) ==
    /\ proc[p].pc = "close_await"
    /\ pools[proc[p].pool].out = 0
    /\ pools' = [pools EXCEPT ![proc[p].pool].state = "closed"]
    /\ _pool' = AfterClose(_pool)
    /\ last' = Result("close", <<>>, "ok", <<proc[p].pool>>)
    /\ proc' = [proc EXCEPT ![p] = Idle]
    /\ UNCHANGED <<mgrPool, memories, nextId, now, addLog, max_size>>

\* ------------------------------------------------------ memory/manager.py
\* MemoryManager._get_pool with get_db_pool inlined: the pool an operation of
\* manager m runs against; None stands for the RuntimeError of get_db_pool.
GetPool(m) == IF mgrPool[m] = None THEN _pool ELSE mgrPool[m]

\* Variant of InsertedRow: the timestamp is shifted into the past (a local
\* time taken for UTC).
InsertedRow_Skewed(id, text, t) ==
    [id |-> id, text |-> text, created_at |-> t - 1, embedding |-> None]

\* add_memory line 87: the row bound to the INSERT statement.
InsertedRow(id, text, t) ==
    [id |-> id, text |-> text, created_at |-> t, embedding |-> None]

\* get_memory_by_id lines 156-165: the first row with the id, as a Memory;
\* the empty sequence stands for the None of line 165.
ToMemory(row) ==
    [id |-> row.id, text |-> row.text, created_at |-> row.created_at,
     embedding |-> row.embedding]

\* Variant of FetchRow: a miss yields an empty record instead of None.
FetchRow_Default(id) ==
    IF \E r \in memories : r.id = id
    THEN <<ToMemory(CHOOSE r \in memories : r.id = id)>>
    ELSE <<[id |-> id, text |-> <<>>, created_at |-> 0, embedding |-> None]>>

FetchRow(id) ==
    IF \E r \in memories : r.id = id
    THEN <<ToMemory(CHOOSE r \in memories : r.id = id)>>
    ELSE <<>>

\* search_memories lines 115-122: the document matches (@@) when it holds
\* every required word and no excluded word; a query without any word
\* matches nothing.  ts_rank_cd grows with the occurrences of the required
\* words and is 0 when the document holds none of them.
Range(s) == {s[i] : i \in DOMAIN s}

Matches(text, q) ==
    /\ q.all # <<>> \/ q.none # <<>>
    /\ \A i \in DOMAIN q.all : q.all[i] \in Range(text)
    /\ \A i \in DOMAIN q.none : q.none[i] \notin Range(text)

Score(text, q) == Cardinality({i \in DOMAIN text : text[i] \in Range(q.all)})

\* Variant of Matching: the WHERE clause of line 120 is missing.
Matching_All(q) == memories

\* Line 120: the rows the WHERE clause keeps.
Matching(q) == {r \in memories : Matches(r.text, q)}

ToResponse(row, q) ==
    [id |-> row.id, text |-> row.text, created_at |-> row.created_at,
     score |-> Score(row.text, q)]

\* Variant of Limit: the LIMIT clause of line 122 is missing.
Limit_Ignored(top_k, m) == m

\* Line 122, LIMIT $2: the number of rows returned out of m matching rows.
Limit(top_k, m) == IF top_k < m THEN top_k ELSE m

\* Variant of Ordered: the ORDER BY clause of line 121 is missing.
Ordered_Any(f, q) == TRUE

\* Line 121, ORDER BY score DESC: rows f[1..n] are in an order the sort may
\* produce; every order of equal scores is allowed.
Ordered(f, q) ==
    \A i, j \in DOMAIN f : i < j => Score(f[i].text, q) >= Score(f[j].text, q)

\* The rows pool.fetch may return for the statement of lines 115-123, as
\* the responses of lines 126-134: the first rows of the sorted matches.
SearchRows(q, top_k) ==
    LET M == Matching(q)
        n == Limit(top_k, Cardinality(M))
    IN  { [i \in 1..n |-> ToResponse(s[i], q)] : s \in
            { f \in [1..n -> M] :
                /\ \A i, j \in 1..n : i < j => f[i] # f[j]
                /\ Ordered(f, q)
                /\ \A r \in M \ Range(f) :
                      Ordered([i \in 1..(n + 1) |-> IF i <= n THEN f[i] ELSE r], q) } }

StoreArgs(o) ==
    CASE o = "add" -> {<<text>> : text \in Texts}
      [] o = "get" -> {<<id>> : id \in {UnusedId} \cup {r.id : r \in addLog}}
      [] o = "search" -> {<<q, k>> : q \in Queries, k \in TopKs}
      [] OTHER -> {<<>>}

\* Variant of Failure: the except clauses return None instead of raising.
Failure_Swallowed(o, arg, status) == Result(o, arg, "ok", <<>>)

\* main.py lines 126-133: health_check turns every exception into
\* db_status "Error"; the manager's operations re-raise.
Failure(o, arg, status) ==
    IF o = "health" THEN Result(o, arg, "ok", <<"Error">>)
    ELSE Result(o, arg, status, <<>>)

\* Variant of Uuid4: a call yields the token of the call before it.
Uuid4_Repeats == IF nextId = 0 THEN nextId + 1 ELSE nextId

\* add_memory line 75: uuid.uuid4() yields a token no call has drawn before.
Uuid4 == nextId + 1

\* add_memory line 87: datetime.utcnow() is read when the arguments of
\* pool.execute are evaluated; a reading is never earlier than the one
\* before it.  The other operations do not read the clock.
UtcNow(o) == IF o = "add" THEN now..MaxTime ELSE {now}

\* An operation of manager m up to its first suspension: _get_pool, the
\* uuid4 and utcnow of add_memory, and the entry of Pool.acquire, which
\* refuses a pool that is closing or closed, takes a free connection at
\* once and otherwise suspends until one is released.
CallStore(p, m, o, arg, t) ==
    /\ FreeSlot(p)
    /\ LET q == GetPool(m) IN
       IF q = None
       THEN /\ last' = Failure(o, arg, "NotInitialized")
            /\ UNCHANGED <<mgrPool, nextId, now, proc, pools>>
       ELSE /\ mgrPool' = [mgrPool EXCEPT ![m] = q]
            /\ nextId' = IF o = "add" THEN nextId + 1 ELSE nextId
            /\ now' = t
            /\ IF pools[q].state # "open"
               THEN /\ last' = Failure(o, arg, "PoolClosed")
                    /\ UNCHANGED <<proc, pools>>
               ELSE LET free == pools[q].out < pools[q].max_size IN
                    /\ proc' = [proc EXCEPT ![p] =
                          [Idle EXCEPT !.pc = IF free THEN "holding" ELSE "waiting",
                                       !.op = o, !.arg = arg, !.pool = q,
                                       !.id = IF o = "add" THEN Uuid4 ELSE 0,
                                       !.t = IF o = "add" THEN t ELSE 0]]
                    /\ pools' = IF free THEN [pools EXCEPT ![q].out = @ + 1]
                                ELSE pools
                    /\ last' = NoResult
    /\ UNCHANGED <<_pool, memories, addLog, max_size>>

\* A suspended Pool.acquire resumes once fewer than max_size connections are
\* out; no timeout is passed (pool.py lines 60-62, manager.py lines 87, 125,
\* 156), so it resumes on no other event.
Acquire(p) ==
    /\ proc[p].pc = "waiting"
    /\ pools[proc[p].pool].out < pools[proc[p].pool].max_size
    /\ pools' = [pools EXCEPT ![proc[p].pool].out = @ + 1]
    /\ proc' = [proc EXCEPT ![p].pc = "holding"]
    /\ last' = NoResult
    /\ UNCHANGED <<_pool, mgrPool, memories, nextId, now, addLog, max_size>>

\* Variant of ReleaseConn: the connection is released on the success path
\* only (no scoped release).
ReleaseConn_LeakOnError(q, failed) ==
    IF failed THEN pools ELSE [pools EXCEPT ![q].out = @ - 1]

\* The scoped release of the connection: the exit of "async with acquire()"
\* runs whether the statement completed or raised.
ReleaseConn(q, failed) == [pools EXCEPT ![q].out = @ - 1]

\* Variant of RowsAfter: the row of a failed INSERT stays in the relation.
RowsAfter_Partial(o, ok, row) ==
    IF o = "add" THEN memories \cup {row} ELSE memories

\* Variant of RowsAfter: a search consumes the rows it matched.
RowsAfter_Consumed(o, ok, row) ==
    IF ok /\ o = "add" THEN memories \cup {row}
    ELSE IF ok /\ o = "search" THEN {}
    ELSE memories

\* The memories relation once the statement of operation o has completed
\* (ok) or failed: the INSERT of add_memory (lines 80-84) adds its row, a
\* failed statement has no effect, the SELECTs of search_memories (115-123),
\* get_memory_by_id (154) and health_check change nothing.
RowsAfter(o, ok, row) ==
    IF ok /\ o = "add" THEN memories \cup {row} ELSE memories

\* The statement runs on the held connection and completes or fails; the
\* connection goes back to the pool and the call returns or re-raises.
\* Nothing of this program runs between the statement and the release.
Execute(p) ==
    /\ proc[p].pc = "holding"
    /\ \E ok \in BOOLEAN :
        LET o == proc[p].op
            arg == proc[p].arg
        IN  /\ memories' = RowsAfter(o, ok,
                                      InsertedRow(proc[p].id, arg[1], proc[p].t))
            /\ pools' = ReleaseConn(proc[p].pool, ~ok)
            /\ \E rows \in (IF o = "get" THEN {FetchRow(arg[1])}
                            ELSE IF o = "search" THEN SearchRows(arg[1], arg[2])
                            ELSE {<<>>}) :
                 last' = IF ~ok THEN Failure(o, arg, "StatementFailed")
                         ELSE IF o = "add" THEN Result(o, arg, "ok", <<proc[p].id>>)
                         ELSE IF o = "health" THEN Result(o, arg, "ok", <<"OK">>)
                         ELSE Result(o, arg, "ok", rows)
            /\ addLog' = IF ok /\ o = "add"
                         THEN addLog \cup {[id |-> proc[p].id, text |-> arg[1],
                                            called |-> proc[p].t]}
                         ELSE addLog
    /\ proc' = [proc EXCEPT ![p] = Idle]
    /\ UNCHANGED <<_pool, mgrPool, nextId, now, max_size>>

Next ==
    \/ \E p \in Procs, form \in Forms : CallInit(p, form)
    \/ \E p \in Procs : InitResume(p)
    \/ \E p \in Procs : CallClose(p)
    \/ \E p \in Procs : CloseResume(p)
    \/ \E p \in Procs, m \in Managers, o \in StoreOps :
          \E arg \in StoreArgs(o), t \in UtcNow(o) :
             /\ o = "add" => nextId < MaxIds
             /\ CallStore(p, m, o, arg, t)
    \/ \E p \in Procs : Acquire(p)
    \/ \E p \in Procs : Execute(p)

Spec == Init /\ [][Next]_vars

\* The event loop resumes a coroutine whose awaited future is done, and the
\* pool's queue of waiters is first-in first-out.  Whether the database
\* ever completes a statement is not in the hands of this program: no
\* statement timeout is configured.
Fairness ==
    \A p \in Procs :
        /\ WF_vars(InitResume(p))
        /\ WF_vars(CloseResume(p))
        /\ SF_vars(Acquire(p))

FairSpec == Spec /\ Fairness

\* ------------------------------------------------- the store on a Ready pool
\* A second specification: the server after startup() (main.py lines 41-46)
\* with the pool Ready for the whole run, several records and the inputs
\* that tell the results of search_memories apart.
StoreTexts == {<<"buy", "milk">>, <<"milk", "milk">>, <<"buy", "bread">>}
StoreQueries == {Query(<<"milk">>, <<>>), Query(<<"xyz">>, <<>>),
                 Query(<<>>, <<"milk">>)}
StoreTopKs == {0, 1, 2}

\* Identifiers of add_memory calls that are over, returned or raised.
FinishedIds == (1..nextId) \ {proc[p].id : p \in Procs}

StoreSpecArgs(o) ==
    CASE o = "add" -> {<<text>> : text \in StoreTexts}
      [] o = "get" -> {<<id>> : id \in {UnusedId} \cup FinishedIds}
      [] o = "search" -> {<<q, k>> : q \in StoreQueries, k \in StoreTopKs}
      [] OTHER -> {<<>>}

StoreInit ==
    /\ max_size \in PoolSizes
    /\ pools = <<[state |-> "open", max_size |-> max_size, out |-> 0]>>
    /\ _pool = 1
    /\ mgrPool = [m \in Managers |-> None]
    /\ memories = {}
    /\ nextId = 0
    /\ now = 0
    /\ proc = [p \in Procs |-> Idle]
    /\ last = NoResult
    /\ addLog = {}

StoreNext ==
    \/ \E p \in Procs, m \in Managers, o \in ManagerOps :
          \E arg \in StoreSpecArgs(o) :
             /\ o = "add" => nextId < MaxStoreIds
             /\ CallStore(p, m, o, arg, now)
    \/ \E p \in Procs : Acquire(p)
    \/ \E p \in Procs : Execute(p)

StoreSpec == StoreInit /\ [][StoreNext]_vars

\* ----------------------------------------------------------------- claims

Returns(p, from) == proc[p].pc = from /\ proc'[p].pc = "idle"

\* C1: an initialize that fails with the connection error while the
\* singleton is None leaves the singleton None, so that a retry is not
\* rejected and no operation obtains a pool.
C1_FailedInitLeavesUninitialized ==
    [][\A p \in Procs :
         (Returns(p, "init_await") /\ last'.status = "ConnectionRefused"
            /\ _pool = None) => _pool' = None]_vars

\* C2: an initialize that passed the guard and whose create_pool succeeded
\* (the database is reachable) returns normally and leaves the pool Ready.
C2_InitSucceedsWhenReachable ==
    [][\A p \in Procs :
         (Returns(p, "init_await") /\ Len(pools') > Len(pools))
            => /\ last'.status = "ok"
               /\ _pool' = Len(pools')
               /\ pools'[_pool'].state = "open"]_vars

\* The step is a call of init_db_pool: a task suspends in create_pool, or
\* the call returns at once.
InitCalled ==
    \/ \E p \in Procs : proc[p].pc = "idle" /\ proc'[p].pc = "init_await"
    \/ last'.op = "init" /\ proc' = proc

\* C3: initialize on a Ready pool fails with "already initialized", leaves
\* the singleton the same pool object and opens no pool.
C3_DoubleInitRejected ==
    [][(_pool # None /\ InitCalled)
          => /\ last'.status = "AlreadyInitialized"
             /\ proc' = proc
             /\ UNCHANGED <<_pool, pools>>]_vars

C3_Witness ==
    /\ last.op = "init" /\ last.status = "AlreadyInitialized"
    /\ _pool # None /\ pools[_pool].state = "open"

\* C4: once close() has completed and no pool is installed, every add,
\* getById and search fails with the "not initialized" error, also on a
\* manager that ran an operation while the pool was Ready.
C4_ClosedPoolNotInitialized ==
    [][\A p \in Procs, m \in Managers, o \in ManagerOps :
         \A arg \in StoreArgs(o), t \in UtcNow(o) :
            (_pool = None /\ (\E q \in PoolIds : pools[q].state = "closed")
                /\ CallStore(p, m, o, arg, t))
              => last'.status = "NotInitialized"]_vars

\* No init_db_pool call has returned normally so far: no call got a pool
\* from create_pool, or the only one that did has just raised.
NoInitSucceeded ==
    \/ Len(pools) = 0
    \/ /\ Len(pools) = 1
       /\ last.op = "init" /\ last.status = "ConnectionRefused" /\ last.value = <<1>>

\* C5: before any initialize has returned normally, every add, getById and
\* search fails with the "not initialized" error and runs no statement.
C5_NoOperationBeforeInit ==
    [][\A p \in Procs, m \in Managers, o \in ManagerOps :
         \A arg \in StoreArgs(o), t \in UtcNow(o) :
            (NoInitSucceeded /\ CallStore(p, m, o, arg, t))
              => /\ last'.status = "NotInitialized"
                 /\ proc'[p].pc = "idle"
                 /\ UNCHANGED <<pools, memories>>]_vars

\* C6: when close() completes the singleton is None; an initialize called
\* with the singleton None is not rejected as "already initialized"; and
\* when its create_pool succeeds the new pool is installed and Ready.
C6_CloseThenInitCycles ==
    [][/\ last'.op = "close" => _pool' = None
       /\ (_pool = None /\ InitCalled)
            => /\ last'.status # "AlreadyInitialized"
               /\ proc' # proc
       /\ (Len(pools') > Len(pools) /\ last'.op = "init")
            => /\ _pool' = Len(pools')
               /\ pools'[_pool'].state = "open"]_vars

C6_Witness ==
    /\ Len(pools) >= 2
    /\ pools[1].state = "closed"
    /\ last.op = "init" /\ last.value = <<2>>
    /\ _pool = 2 /\ pools[2].state = "open"

\* C7: every operation waiting for a connection eventually gets one or
\* fails (with a timeout when the connection is held too long).
C7_WaitingAcquireEnds ==
    \A p \in Procs : (proc[p].pc = "waiting") ~> (proc[p].pc # "waiting")

\* C8: every connection acquired for an operation is returned on every exit
\* path: the connections out of a pool are those of the operations still
\* running on it, and none is out once all operations have finished.
C8_ConnectionsReturned ==
    /\ \A q \in PoolIds :
         pools[q].out = Cardinality({p \in Procs :
                            proc[p].pc = "holding" /\ proc[p].pool = q})
    /\ AllIdle => \A q \in PoolIds : pools[q].out = 0

C8_Witness ==
    /\ last.status = "StatementFailed"
    /\ AllIdle
    /\ \A q \in PoolIds : pools[q].out = 0

\* C9: a getById of an id that add returned, when it returns, returns the
\* record with that id, the text passed to add and a created_at between the
\* time add was called and the time of the read.
C9_RoundTrip ==
    (last.op = "get" /\ last.status = "ok" /\ last.arg # <<UnusedId>>)
      => \E a \in addLog :
            /\ a.id = last.arg[1]
            /\ Len(last.value) = 1
            /\ last.value[1].id = a.id
            /\ last.value[1].text = a.text
            /\ a.called <= last.value[1].created_at
            /\ last.value[1].created_at <= now

C9_Witness ==
    /\ last.op = "get" /\ last.status = "ok" /\ last.arg # <<UnusedId>>
    /\ Len(last.value) = 1
    /\ last.value[1].text = <<"buy", "milk">>
    /\ last.value[1].created_at = 1

\* C10 as stated: getById of an id no add returned yields None and never
\* raises.
C10_UnusedIdNeverRaises ==
    (last.op = "get" /\ last.arg = <<UnusedId>>)
      => (last.status = "ok" /\ last.value = <<>>)

\* C10 as amended: getById of an id no add returned never yields a record;
\* it returns None unless it raises for want of a usable pool or for a
\* failed statement.
C10_UnusedIdNotFound ==
    (last.op = "get" /\ last.arg = <<UnusedId>>)
      => /\ last.value = <<>>
         /\ last.status \in {"ok", "NotInitialized", "PoolClosed", "StatementFailed"}

C10_Witness ==
    /\ last.op = "get" /\ last.arg = <<UnusedId>>
    /\ last.status = "ok" /\ last.value = <<>>
    /\ memories # {}

\* Identifiers returned by an add_memory call, and identifiers drawn by a
\* call that raised.
KnownIds == {a.id : a \in addLog}

FailedIds == FinishedIds \ KnownIds

\* C11: an add that fails raises and leaves the memories relation as it
\* was (an add that returns normally has inserted its row), and the
\* identifier drawn by a failed add is never returned by a later getById or
\* search.
C11_FailedAddLeavesNothing ==
    [][/\ (last'.op = "add" /\ last'.status # "ok") => memories' = memories
       /\ (last'.op = "add" /\ memories' = memories) => last'.status # "ok"
       /\ (last'.op = "get" /\ last'.arg[1] \in FailedIds') => last'.value = <<>>
       /\ last'.op = "search"
            => \A i \in DOMAIN last'.value : last'.value[i].id \notin FailedIds']_vars

C11_Witness ==
    /\ last.op = "get" /\ last.status = "ok" /\ last.value = <<>>
    /\ last.arg[1] \in FailedIds
    /\ memories # {}

\* C12: getById and search are read-only: whether they return or raise, the
\* memories relation is what it was; only an add that returns normally
\* changes it.
C12_ReadsChangeNothing ==
    [][/\ last'.op \in {"get", "search"} => memories' = memories
       /\ memories' # memories => (last'.op = "add" /\ last'.status = "ok")]_vars

C12_Witness ==
    /\ last.op = "search" /\ last.status = "ok"
    /\ Len(last.value) = 1
    /\ \E r \in memories : r.id = last.value[1].id

\* C13: after any interleaving of add calls the relation holds one record
\* per add that returned: as many records as successful adds, no two with
\* the same id, and every record still as its add wrote it.
C13_OneRecordPerAdd ==
    /\ Cardinality(memories) = Cardinality(addLog)
    /\ \A r1, r2 \in memories : r1.id = r2.id => r1 = r2
    /\ \A a \in addLog :
          \E r \in memories :
             r = InsertedRow(a.id, a.text, a.called)

C13_Witness ==
    /\ Cardinality(memories) = 2
    /\ last.op = "add" /\ last.status = "ok"
    /\ \E p \in Procs : proc[p].op = "get" /\ proc[p].pc = "holding"

\* C14: every record created through the add_memory tool has a non-empty
\* text.
C14_TextNeverEmpty ==
    \A r \in memories : r.text # <<>>

\* C15: a search(q, topK) with topK >= 0 returns at most topK results, and
\* none when topK = 0.
C15_SearchResultBound ==
    [][\A p \in Procs :
         (proc[p].op = "search" /\ Returns(p, "holding"))
            => Len(last'.value) <= proc[p].arg[2]]_vars

C15_Witness ==
    /\ last.op = "search" /\ last.status = "ok"
    /\ Len(last.value) = 1
    /\ Cardinality(Matching(Query(<<"milk">>, <<>>))) = 2

\* C16: the sequence a search returns is sorted by non-increasing score, and
\* no matching record left out by the truncation to topK has a score
\* strictly greater than a returned one.
C16_SearchOrdering ==
    [][\A p \in Procs :
         (proc[p].op = "search" /\ Returns(p, "holding") /\ last'.status = "ok")
            => LET q == proc[p].arg[1]
                   v == last'.value
               IN  /\ \A i, j \in DOMAIN v : i < j => v[i].score >= v[j].score
                   /\ \A r \in Matching(q) :
                        (\A i \in DOMAIN v : v[i].id # r.id)
                           => \A i \in DOMAIN v : v[i].score >= Score(r.text, q)]_vars

C16_Witness ==
    /\ last.op = "search" /\ last.status = "ok"
    /\ Len(last.value) = 1
    /\ last.value[1].score = 2
    /\ \E r \in memories : r.text = <<"buy", "milk">>

\* The step is the normal return of the search of task p.
SearchReturned(p) ==
    proc[p].op = "search" /\ Returns(p, "holding") /\ last'.status = "ok"

\* Response x is a copy of a record in the store whose text matches q.
IsCopy(x, q) ==
    \E r \in memories :
        /\ Matches(r.text, q)
        /\ x.id = r.id /\ x.text = r.text /\ x.created_at = r.created_at

\* Every matching record is in result v when they are at most top_k.
Complete(v, q, top_k) ==
    Cardinality({r \in memories : Matches(r.text, q)}) <= top_k
       => \A r \in memories :
             Matches(r.text, q) => \E i \in DOMAIN v : v[i].id = r.id

\* C17 as stated: every result of search(q, topK) is a copy of a stored
\* record that matches q and has a score > 0 (so a query that matches no
\* record returns nothing), and every matching record is in the result when
\* the matching records are at most topK.
C17_SearchMembership ==
    [][\A p \in Procs :
         SearchReturned(p)
            => LET q == proc[p].arg[1]
                   v == last'.value
               IN  /\ \A i \in DOMAIN v : IsCopy(v[i], q) /\ v[i].score > 0
                   /\ Complete(v, q, proc[p].arg[2])]_vars

\* C17 as amended: the same with a score that is never negative and is > 0
\* when the query requires at least one word.
C17_SearchMembershipRanked ==
    [][\A p \in Procs :
         SearchReturned(p)
            => LET q == proc[p].arg[1]
                   v == last'.value
               IN  /\ \A i \in DOMAIN v :
                        /\ IsCopy(v[i], q)
                        /\ v[i].score >= 0
                        /\ q.all # <<>> => v[i].score > 0
                   /\ Complete(v, q, proc[p].arg[2])]_vars

C17_Witness ==
    /\ last.op = "search" /\ last.status = "ok"
    /\ Len(last.value) = 2
    /\ last.value[1].score = 2 /\ last.value[2].score = 1
    /\ last.value[1].id # last.value[2].id

\* C18: in every pool state, an exhausted pool included, the health probe
\* returns a response: a probe waiting for a connection eventually stops
\* waiting and answers.
C18_ProbeAnswers ==
    \A p \in Procs :
        (proc[p].op = "health" /\ proc[p].pc = "waiting")
           ~> (proc[p].op # "health" \/ proc[p].pc = "holding")

\* C19: getById returns not-found (None) only when its select ran and
\* matched no row; a failed statement or connection ends in an error, never
\* in not-found.
C19_NotFoundOnlyOnMiss ==
    /\ (last.op = "get" /\ last.status = "ok" /\ last.value = <<>>)
          => \A r \in memories : r.id # last.arg[1]
    /\ (last.op = "get" /\ last.status = "ok" /\ last.value # <<>>)
          => \E r \in memories : r.id = last.arg[1]
    /\ (last.op = "get" /\ last.status # "ok")
          => /\ last.value = <<>>
             /\ last.status \in {"NotInitialized", "PoolClosed", "StatementFailed"}

C19_Witness ==
    /\ last.op = "get" /\ last.status = "StatementFailed"
    /\ \E r \in memories : r.id = last.arg[1]

\* C20: close() called while the singleton is None returns normally at
\* once, closes nothing and changes nothing, so that the state a following
\* initialize finds is the one a first initialize finds.
C20_CloseOfNoneIsNoOp ==
    [][(_pool = None /\ last'.op = "close" /\ proc' = proc)
          => /\ last'.status = "ok"
             /\ last'.value = <<>>
             /\ UNCHANGED <<_pool, pools, mgrPool, memories, nextId, now,
                            addLog, max_size>>]_vars

C20_Witness ==
    /\ last.op = "close" /\ last.status = "ok" /\ last.value = <<>>
    /\ _pool = None /\ pools = <<>>
    /\ AllIdle

\* C21: of the initialize calls started while the singleton is None at most
\* one installs a pool: a call that returns normally with a new pool finds
\* the singleton still None, so that no installed pool is overwritten and
\* left open without a reference.
C21_OneInitWins ==
    [][(last'.op = "init" /\ last'.status = "ok" /\ Len(pools') > Len(pools))
          => _pool = None]_vars

\* C22: a close() only clears the pool it closed: a close of pool P1 that
\* resumes after another close of P1 has completed, when a newer pool has
\* been installed since, leaves the singleton on the newer pool.
C22_CloseClearsOwnPool ==
    [][\A p \in Procs :
         (/\ Returns(p, "close_await")
          /\ pools[proc[p].pool].state = "closed"
          /\ _pool \notin {None, proc[p].pool})
            => _pool' = _pool]_vars

\* C23: the pool a MemoryManager uses for an operation is the current
\* singleton: once close() has completed and a new pool is installed and
\* Ready, no operation is refused by the closed pool.
C23_OperationsUseSingleton ==
    (/\ last.status = "PoolClosed"
     /\ \A q \in PoolIds \ {_pool} : pools[q].state = "closed")
       => ~(_pool # None /\ pools[_pool].state = "open")
====
